---- MODULE Spec2Model ----
(***************************************************************************)
(* ItemCandlestickChartComponent (bc-market-client): the scale, the        *)
(* candlestick geometry and the lifecycle / resize handlers of the chart   *)
(* component, as a state machine.                                          *)
(*                                                                         *)
(* JavaScript numbers are modelled as exact rationals [n, d] (d > 0,       *)
(* lowest terms) extended with the three non-finite values of IEEE         *)
(* arithmetic: NaN = 0/0, Infinity = 1/0, -Infinity = -1/0.  Rounding of   *)
(* doubles and the sign of zero are not modelled.                          *)
(***************************************************************************)
EXTENDS Integers, Sequences, FiniteSets, TLC

VARIABLES
    marketData,      \* @Input() marketData: Null or [present, dataPoints]
    chartConfig,     \* chartConfig: ChartConfig
    candlesticks,    \* private candlesticks: the created candlestick elements
    volumeBars,      \* private volumeBars: the created volume-bar elements
    initialized,     \* private initialized
    resizeObserver,  \* private resizeObserver: "null" | "observing" | "disconnected"
    chartContainer,  \* @ViewChild('chartContainer') resolved
    hostListening,   \* the @HostListener('window:resize') binding is attached
    hasResizeObserver, \* typeof ResizeObserver !== 'undefined' in this browser
    pc,              \* position in the component lifecycle
    trigger          \* the last event the host delivered (history only)

vars == <<marketData, chartConfig, candlesticks, volumeBars, initialized,
          resizeObserver, chartContainer, hostListening, hasResizeObserver,
          pc, trigger>>

-----------------------------------------------------------------------------
(* Bounds of the model *)

\* longest series (in data points) the host binds, besides the 7-point ones
MaxLen == 1

-----------------------------------------------------------------------------
(* JavaScript number arithmetic *)

Sign(i) == IF i > 0 THEN 1 ELSE IF i < 0 THEN -1 ELSE 0

AbsInt(i) == IF i < 0 THEN -i ELSE i

RECURSIVE GCD(_, _)
GCD(a, b) == IF b = 0 THEN a ELSE GCD(b, a % b)

Norm(n, d) ==
    IF d = 0 THEN [n |-> Sign(n), d |-> 0]
    ELSE LET g == GCD(AbsInt(n), AbsInt(d))
         IN  [n |-> (Sign(d) * n) \div g, d |-> AbsInt(d) \div g]

Num(i) == [n |-> i, d |-> 1]

NaN == [n |-> 0, d |-> 0]

IsNaN(a) == a.d = 0 /\ a.n = 0

Neg(a) == [n |-> -a.n, d |-> a.d]

Add(a, b) ==
    IF a.d = 0 /\ b.d = 0
    THEN (IF a.n = b.n THEN a ELSE NaN)
    ELSE Norm(a.n * b.d + b.n * a.d, a.d * b.d)

Sub(a, b) == Add(a, Neg(b))

Mul(a, b) == Norm(a.n * b.n, a.d * b.d)

Div(a, b) == Mul(a, Norm(b.d, b.n))

Lt(a, b) ==
    /\ ~IsNaN(a)
    /\ ~IsNaN(b)
    /\ IF a.d = 0 /\ b.d = 0 THEN a.n < b.n ELSE a.n * b.d < b.n * a.d

MathMin(a, b) == IF IsNaN(a) \/ IsNaN(b) THEN NaN ELSE IF Lt(b, a) THEN b ELSE a

MathMax(a, b) == IF IsNaN(a) \/ IsNaN(b) THEN NaN ELSE IF Lt(a, b) THEN b ELSE a

MathAbs(a) == [n |-> AbsInt(a.n), d |-> a.d]

\* Math.floor / Math.ceil of a finite number, as an integer
MathFloor(a) == a.n \div a.d

MathCeil(a) == -((-a.n) \div a.d)

MinOf(S) == CHOOSE x \in S : \A y \in S : x <= y

MaxOf(S) == CHOOSE x \in S : \A y \in S : x >= y

\* Number.prototype.toLocaleString() of a finite number (en-US defaults):
\* rounded to at most 3 fraction digits, integer part in groups of three.
\* A label is [neg, groups, frac]: '1,383.333' is <<1, 383>> and 333.
RECURSIVE Groups(_)
Groups(k) == IF k < 1000 THEN <<k>> ELSE Append(Groups(k \div 1000), k % 1000)

ToLocaleString(a) ==
    LET scaled == AbsInt(a.n) * 1000
        q      == scaled \div a.d
        r      == scaled % a.d
        milli  == IF 2 * r >= a.d THEN q + 1 ELSE q
    IN  [neg    |-> a.n < 0 /\ milli > 0,
         groups |-> Groups(milli \div 1000),
         frac   |-> milli % 1000]

-----------------------------------------------------------------------------
(* Data *)

Null == [present |-> FALSE, dataPoints |-> <<>>]

MarketData(dp) == [present |-> TRUE, dataPoints |-> dp]

Point(t, o, h, l, c, v) ==
    [time |-> t, open |-> o, high |-> h, low |-> l, close |-> c, volume |-> v]

sampleMarketData ==
    MarketData(<< Point("6h ago", 1180, 1220, 1150, 1200, 45),
                  Point("5h ago", 1200, 1250, 1180, 1230, 67),
                  Point("4h ago", 1230, 1280, 1200, 1210, 89),
                  Point("3h ago", 1210, 1240, 950, 980, 156),
                  Point("2h ago", 980, 1100, 891, 1050, 234),
                  Point("1h ago", 1050, 1200, 1040, 1180, 178),
                  Point("Now", 1180, 1389, 1160, 1247, 98) >>)

Lbl(g) == [neg |-> FALSE, groups |-> g, frac |-> 0]

InitialChartConfig ==
    [chartHeight |-> 360,
     chartWidth  |-> 1040,
     candleWidth |-> 20,
     maxPrice    |-> 1400,
     minPrice    |-> 800,
     yAxisLabels |-> << Lbl(<<1, 400>>), Lbl(<<1, 300>>), Lbl(<<1, 200>>),
                        Lbl(<<1, 100>>), Lbl(<<1, 0>>), Lbl(<<900>>), Lbl(<<800>>) >>,
     xAxisLabels |-> << "6h ago", "5h ago", "4h ago", "3h ago", "2h ago",
                        "1h ago", "Now" >>]

\* Data points the host draws its series from
Flat100 == Point("Mon", 100, 100, 100, 100, 0)

Bull == Point("Tue", 120, 180, 110, 150, 250)

Points == {Flat100, Bull}

RECURSIVE SeqsUpTo(_, _)
SeqsUpTo(S, k) ==
    IF k = 0 THEN {<<>>}
    ELSE LET shorter == SeqsUpTo(S, k - 1)
         IN  shorter \cup {Append(s, x) : s \in shorter, x \in S}

\* A 7-point series with the prices of the built-in one and other time labels
AltDataPoints ==
    [i \in 1..7 |->
        [sampleMarketData.dataPoints[i] EXCEPT
            !.time = <<"D1", "D2", "D3", "D4", "D5", "D6", "D7">>[i]]]

\* Values the host binds to marketData: null, or a MarketData object whose
\* dataPoints may be empty
Inputs == {Null} \cup {MarketData(dp) : dp \in SeqsUpTo(Points, MaxLen) \cup {AltDataPoints}}

\* Widths the container reports (contentRect.width, clientWidth)
Widths == {0, 40, 580}

-----------------------------------------------------------------------------
(* The component's methods *)

\* YAxisLabels with the range divided by the number of labels, not of gaps
YAxisLabelsBySeven(maxPrice, minPrice) ==
    LET range == maxPrice - minPrice
        step == Div(Num(range), Num(7))
    IN  [i \in 1..7 |-> ToLocaleString(Sub(Num(maxPrice), Mul(Num(i - 1), step)))]

\* the seven y-axis labels initializeData() derives from the scale
YAxisLabels(maxPrice, minPrice) ==
    LET range == maxPrice - minPrice
        step == Div(Num(range), Num(6))
    IN  [i \in 1..7 |-> ToLocaleString(Sub(Num(maxPrice), Mul(Num(i - 1), step)))]

\* initializeData(): the marketData and chartConfig it leaves
InitializeData(md, cfg) ==
    LET md1 == IF ~md.present THEN sampleMarketData ELSE md
        dp  == md1.dataPoints
    IN  IF Len(dp) > 0
        THEN LET prices == UNION {{dp[i].high, dp[i].low, dp[i].open, dp[i].close} :
                                   i \in 1..Len(dp)}
                 minDataPrice == MinOf(prices)
                 maxDataPrice == MaxOf(prices)
                 padding == Mul(Num(maxDataPrice - minDataPrice), Norm(1, 10))
                 minPrice == MathFloor(Div(Sub(Num(minDataPrice), padding), Num(100))) * 100
                 maxPrice == MathCeil(Div(Add(Num(maxDataPrice), padding), Num(100))) * 100
                 yAxisLabels == YAxisLabels(maxPrice, minPrice)
                 xAxisLabels ==
                     IF Len(cfg.xAxisLabels) # Len(dp)
                     THEN [i \in 1..Len(dp) |-> dp[i].time]
                     ELSE cfg.xAxisLabels
             IN  [marketData  |-> md1,
                  chartConfig |-> [cfg EXCEPT !.minPrice = minPrice,
                                              !.maxPrice = maxPrice,
                                              !.yAxisLabels = yAxisLabels,
                                              !.xAxisLabels = xAxisLabels]]
        ELSE [marketData |-> md1, chartConfig |-> cfg]

\* createCandlestick(data, index): the styles and classes set on the two
\* elements it returns.  `${v}px` is kept as the number v.
CreateCandlestick(md, cfg, data, index) ==
    LET chartHeight == Num(cfg.chartHeight)
        priceRange == Num(cfg.maxPrice - cfg.minPrice)
        n == IF md.present /\ Len(md.dataPoints) # 0 THEN Len(md.dataPoints) ELSE 1
        spacing == Div(Num(cfg.chartWidth), Num(n))
        x == Add(Add(Num(20), Mul(Num(index), spacing)),
                 Div(Sub(spacing, Num(cfg.candleWidth)), Num(2)))
        toY(price) ==
            Add(Sub(chartHeight,
                    Mul(Div(Num(price - cfg.minPrice), priceRange), chartHeight)),
                Num(20))
        openY == toY(data.open)
        closeY == toY(data.close)
        highY == toY(data.high)
        lowY == toY(data.low)
        isGreen == data.close > data.open
        bodyTop == MathMin(openY, closeY)
        bodyHeight == MathAbs(Sub(closeY, openY))
    IN  [candlestick |->
            [left       |-> x,
             wickTop    |-> highY,
             wickHeight |-> Sub(lowY, highY),
             bodyClass  |-> IF isGreen THEN "candle-green" ELSE "candle-red",
             bodyTop    |-> bodyTop,
             bodyHeight |-> MathMax(bodyHeight, Num(2)),
             data       |-> data],
         volumeBar |->
            [left   |-> x,
             height |-> Mul(Div(Num(data.volume), Num(250)), Num(60))]]

\* clearChart(): both element lists are reset
ClearChart == [candlesticks |-> <<>>, volumeBars |-> <<>>]

\* renderChart(): the element lists it leaves
RenderChart(md, container, cfg, oldCandlesticks, oldVolumeBars) ==
    IF ~md.present \/ ~container \/ Len(md.dataPoints) = 0
    THEN [candlesticks |-> oldCandlesticks, volumeBars |-> oldVolumeBars]
    ELSE [candlesticks |->
             ClearChart.candlesticks \o
             [i \in 1..Len(md.dataPoints) |->
                 CreateCandlestick(md, cfg, md.dataPoints[i], i - 1).candlestick],
          volumeBars |->
             ClearChart.volumeBars \o
             [i \in 1..Len(md.dataPoints) |->
                 CreateCandlestick(md, cfg, md.dataPoints[i], i - 1).volumeBar]]

\* AdjustedWidth without the adjustment
AdjustedWidthRaw(width) == width

\* chartWidth assigned from a reported container width
AdjustedWidth(width) == width - 80

\* Disconnect leaving the observer connected
DisconnectForgotten(observer) == observer

\* the if (this.resizeObserver) { this.resizeObserver.disconnect(); } of
\* ngOnDestroy()
Disconnect(observer) == IF observer # "null" THEN "disconnected" ELSE observer

\* ApplyWidth without the renderChart() call
ApplyWidthNoRender(width, md, container, cfg, oldCandlesticks, oldVolumeBars) ==
    [chartConfig |-> IF width > 0
                     THEN [cfg EXCEPT !.chartWidth = AdjustedWidth(width)]
                     ELSE cfg,
     chart |-> [candlesticks |-> oldCandlesticks, volumeBars |-> oldVolumeBars]]

\* the body shared by the ResizeObserver callback and onResize(): the
\* chartConfig and element lists it leaves
ApplyWidth(width, md, container, cfg, oldCandlesticks, oldVolumeBars) ==
    IF width > 0
    THEN LET cfg1 == [cfg EXCEPT !.chartWidth = AdjustedWidth(width)]
         IN  [chartConfig |-> cfg1,
              chart |-> RenderChart(md, container, cfg1, oldCandlesticks, oldVolumeBars)]
    ELSE [chartConfig |-> cfg,
          chart |-> [candlesticks |-> oldCandlesticks, volumeBars |-> oldVolumeBars]]

\* what the host bound: "null", "empty" (no data points) or "series"
InputKind(value) ==
    IF ~value.present THEN "null"
    ELSE IF Len(value.dataPoints) = 0 THEN "empty" ELSE "series"

Event(op, input, width) == [op |-> op, input |-> input, width |-> width]

-----------------------------------------------------------------------------
(* State machine *)

Init ==
    /\ marketData = Null
    /\ chartConfig = InitialChartConfig
    /\ candlesticks = <<>>
    /\ volumeBars = <<>>
    /\ initialized = FALSE
    /\ resizeObserver = "null"
    /\ chartContainer = FALSE
    /\ hostListening = TRUE
    /\ hasResizeObserver \in BOOLEAN
    /\ pc = "constructed"
    /\ trigger = Event("constructor", "none", 0)

\* The host binds a new value to marketData and Angular calls ngOnChanges.
\* The first binding (firstChange) precedes ngOnInit; later ones follow
\* ngAfterViewInit.
ngOnChanges(value) ==
    /\ pc \in {"constructed", "ready"}
    /\ LET firstChange == pc = "constructed"
           data == IF firstChange
                   THEN [marketData |-> value, chartConfig |-> chartConfig]
                   ELSE InitializeData(value, chartConfig)
           chart == IF ~firstChange /\ initialized
                    THEN RenderChart(data.marketData, chartContainer, data.chartConfig,
                                     candlesticks, volumeBars)
                    ELSE [candlesticks |-> candlesticks, volumeBars |-> volumeBars]
       IN  /\ marketData' = data.marketData
           /\ chartConfig' = data.chartConfig
           /\ candlesticks' = chart.candlesticks
           /\ volumeBars' = chart.volumeBars
           /\ pc' = IF firstChange THEN "bound" ELSE pc
    /\ trigger' = Event("ngOnChanges", InputKind(value), 0)
    /\ UNCHANGED <<initialized, resizeObserver, chartContainer, hostListening,
                   hasResizeObserver>>

ngOnInit ==
    /\ pc \in {"constructed", "bound"}
    /\ LET data == InitializeData(marketData, chartConfig)
       IN  /\ marketData' = data.marketData
           /\ chartConfig' = data.chartConfig
    /\ pc' = "inited"
    /\ trigger' = Event("ngOnInit", "none", 0)
    /\ UNCHANGED <<candlesticks, volumeBars, initialized, resizeObserver,
                   chartContainer, hostListening, hasResizeObserver>>

\* The view queries are resolved, then ngAfterViewInit runs:
\* renderChart() and setupResizeObserver()
ngAfterViewInit ==
    /\ pc = "inited"
    /\ chartContainer' = TRUE
    /\ initialized' = TRUE
    /\ LET chart == RenderChart(marketData, TRUE, chartConfig, candlesticks, volumeBars)
       IN  /\ candlesticks' = chart.candlesticks
           /\ volumeBars' = chart.volumeBars
    /\ resizeObserver' = IF hasResizeObserver THEN "observing" ELSE resizeObserver
    /\ pc' = "ready"
    /\ trigger' = Event("ngAfterViewInit", "none", 0)
    /\ UNCHANGED <<marketData, chartConfig, hostListening, hasResizeObserver>>

\* ngOnDestroy(); Angular detaches the component's host listeners with it
ngOnDestroy ==
    /\ pc = "ready"
    /\ candlesticks' = ClearChart.candlesticks
    /\ volumeBars' = ClearChart.volumeBars
    /\ resizeObserver' = Disconnect(resizeObserver)
    /\ hostListening' = FALSE
    /\ pc' = "destroyed"
    /\ trigger' = Event("ngOnDestroy", "none", 0)
    /\ UNCHANGED <<marketData, chartConfig, initialized, chartContainer,
                   hasResizeObserver>>

\* The container's content box changes to `width`; the browser runs the
\* ResizeObserver callback when an observer is observing it
containerResized(width) ==
    /\ chartContainer
    /\ LET r == IF resizeObserver = "observing"
                THEN ApplyWidth(width, marketData, chartContainer, chartConfig,
                                candlesticks, volumeBars)
                ELSE [chartConfig |-> chartConfig,
                      chart |-> [candlesticks |-> candlesticks,
                                 volumeBars |-> volumeBars]]
       IN  /\ chartConfig' = r.chartConfig
           /\ candlesticks' = r.chart.candlesticks
           /\ volumeBars' = r.chart.volumeBars
    /\ trigger' = Event("containerResized", "none", width)
    /\ UNCHANGED <<marketData, initialized, resizeObserver, chartContainer,
                   hostListening, hasResizeObserver, pc>>

\* onResize(): ran on the window's resize event while the host listener is
\* attached; `width` is the container's clientWidth at that moment
onResize(width) ==
    IF ~(resizeObserver # "null") /\ chartContainer
    THEN ApplyWidth(width, marketData, chartContainer, chartConfig,
                    candlesticks, volumeBars)
    ELSE [chartConfig |-> chartConfig,
          chart |-> [candlesticks |-> candlesticks, volumeBars |-> volumeBars]]

windowResized(width) ==
    /\ LET r == IF hostListening
                THEN onResize(width)
                ELSE [chartConfig |-> chartConfig,
                      chart |-> [candlesticks |-> candlesticks,
                                 volumeBars |-> volumeBars]]
       IN  /\ chartConfig' = r.chartConfig
           /\ candlesticks' = r.chart.candlesticks
           /\ volumeBars' = r.chart.volumeBars
    /\ trigger' = Event("windowResized", "none", width)
    /\ UNCHANGED <<marketData, initialized, resizeObserver, chartContainer,
                   hostListening, hasResizeObserver, pc>>

Next ==
    \/ \E value \in Inputs : ngOnChanges(value)
    \/ ngOnInit
    \/ ngAfterViewInit
    \/ ngOnDestroy
    \/ \E width \in Widths : containerResized(width)
    \/ \E width \in Widths : windowResized(width)

Spec == Init /\ [][Next]_vars

-----------------------------------------------------------------------------
(* The scale and the first layout over a grid of prices: one-point series  *)
(* whose four prices range over multiples of 50, bound before ngOnInit     *)

\* highest price of the grid, in steps of 50
MaxTick == 4

GridPrices == {50 * k : k \in 0..MaxTick}

GridPoints ==
    {Point("Now", o, h, l, c, 250) :
        o \in GridPrices, h \in GridPrices, l \in GridPrices, c \in GridPrices}

WellFormed(p) == p.low <= p.open /\ p.low <= p.close /\ p.open <= p.high /\ p.close <= p.high

ScaleInit ==
    /\ marketData \in {MarketData(<<p>>) : p \in {q \in GridPoints : WellFormed(q)}}
    /\ chartConfig = InitialChartConfig
    /\ candlesticks = <<>>
    /\ volumeBars = <<>>
    /\ initialized = FALSE
    /\ resizeObserver = "null"
    /\ chartContainer = FALSE
    /\ hostListening = TRUE
    /\ hasResizeObserver = TRUE
    /\ pc = "bound"
    /\ trigger = Event("ngOnChanges", "series", 0)

ScaleNext == ngOnInit \/ ngAfterViewInit

SpecScale == ScaleInit /\ [][ScaleNext]_vars

-----------------------------------------------------------------------------
(* Vocabulary of the properties *)

IsFinite(a) == a.d # 0

\* a <= b as JavaScript compares numbers (false when either is NaN)
Le(a, b) == ~IsNaN(a) /\ ~IsNaN(b) /\ ~Lt(b, a)

RECURSIVE GroupsValue(_)
GroupsValue(g) ==
    IF Len(g) = 0 THEN 0
    ELSE GroupsValue(SubSeq(g, 1, Len(g) - 1)) * 1000 + g[Len(g)]

\* the number a formatted label reads as
LabelValue(l) ==
    Norm((IF l.neg THEN -1 ELSE 1) * (GroupsValue(l.groups) * 1000 + l.frac), 1000)

TimesOf(dp) == [i \in 1..Len(dp) |-> dp[i].time]

\* event t is a resize notification that reached the component (its handler
\* ran): the observer was observing, or the host listener was attached and
\* onResize() passed its guard
NotifiedBy(t, observer, listening, container) ==
    \/ t.op = "containerResized" /\ observer = "observing"
    \/ t.op = "windowResized" /\ listening /\ observer = "null" /\ container

Notified == NotifiedBy(trigger, resizeObserver, hostListening, chartContainer)

\* x of the candle in slot i (from 0) of n when the layout width is w
SlotX(w, n, i, candleWidth) ==
    LET spacing == Div(Num(w), Num(n))
    IN  Add(Add(Num(20), Mul(Num(i), spacing)), Div(Sub(spacing, Num(candleWidth)), Num(2)))

\* there is one candle and one bar per point of the series dp, each in its
\* slot for width w
LaidOut(dp, cs, vs, w, candleWidth) ==
    /\ Len(cs) = Len(dp)
    /\ Len(vs) = Len(dp)
    /\ \A i \in 1..Len(dp) :
          /\ cs[i].left = SlotX(w, Len(dp), i - 1, candleWidth)
          /\ vs[i].left = SlotX(w, Len(dp), i - 1, candleWidth)

LaidOutForWidth(w) ==
    LaidOut(marketData.dataPoints, candlesticks, volumeBars, w, chartConfig.candleWidth)

-----------------------------------------------------------------------------
(* C1 *)

\* C1: after a data-changed trigger whose series is null or has no data
\* points, the scale, the axis labels and the published geometry (exactly 7
\* shapes) are those of the built-in 7-point dataset.
C1_FallbackOnAbsentSeries ==
    (pc = "ready" /\ trigger.op = "ngOnChanges" /\ trigger.input \in {"null", "empty"})
    => /\ chartConfig.minPrice = 800
       /\ chartConfig.maxPrice = 1500
       /\ \A i \in 1..7 :
             chartConfig.yAxisLabels[i] = ToLocaleString(Norm(9000 - 700 * (i - 1), 6))
       /\ chartConfig.xAxisLabels = TimesOf(sampleMarketData.dataPoints)
       /\ Len(candlesticks) = 7
       /\ Len(volumeBars) = 7
       /\ \A i \in 1..7 : candlesticks[i].data = sampleMarketData.dataPoints[i]

(* C2 *)

\* C2: when maxPrice = minPrice, every price of every laid-out point maps to
\* the finite vertical midpoint chartHeight / 2 + 20.
C2_ZeroRangeMapsToMidpoint ==
    (chartConfig.maxPrice = chartConfig.minPrice)
    => \A i \in 1..Len(candlesticks) :
          LET mid == Add(Div(Num(chartConfig.chartHeight), Num(2)), Num(20))
          IN  /\ candlesticks[i].wickTop = mid
              /\ candlesticks[i].bodyTop = mid
              /\ IsFinite(candlesticks[i].wickHeight)
              /\ IsFinite(candlesticks[i].bodyHeight)

(* C3 *)

ScaleComputed == pc \in {"inited", "ready"} /\ Len(marketData.dataPoints) > 0

\* C3 as stated: for every non-empty series the computed scale has
\* maxPrice >= minPrice and exactly 7 y-axis labels whose values are strictly
\* descending from maxPrice to minPrice.
C3_LabelsStrictlyDescending ==
    ScaleComputed
    => /\ chartConfig.maxPrice >= chartConfig.minPrice
       /\ Len(chartConfig.yAxisLabels) = 7
       /\ LabelValue(chartConfig.yAxisLabels[1]) = Num(chartConfig.maxPrice)
       /\ LabelValue(chartConfig.yAxisLabels[7]) = Num(chartConfig.minPrice)
       /\ \A i \in 1..6 :
             Lt(LabelValue(chartConfig.yAxisLabels[i + 1]),
                LabelValue(chartConfig.yAxisLabels[i]))

\* C3 amended: for every non-empty series the computed scale has
\* maxPrice >= minPrice and exactly 7 y-axis labels running from maxPrice to
\* minPrice, strictly descending when maxPrice > minPrice and all equal when
\* maxPrice = minPrice.
C3_LabelsDescending ==
    ScaleComputed
    => /\ chartConfig.maxPrice >= chartConfig.minPrice
       /\ Len(chartConfig.yAxisLabels) = 7
       /\ LabelValue(chartConfig.yAxisLabels[1]) = Num(chartConfig.maxPrice)
       /\ LabelValue(chartConfig.yAxisLabels[7]) = Num(chartConfig.minPrice)
       /\ \A i \in 1..6 :
             IF chartConfig.maxPrice > chartConfig.minPrice
             THEN Lt(LabelValue(chartConfig.yAxisLabels[i + 1]),
                     LabelValue(chartConfig.yAxisLabels[i]))
             ELSE chartConfig.yAxisLabels[i + 1] = chartConfig.yAxisLabels[i]

C3_Witness ==
    /\ ScaleComputed
    /\ chartConfig.maxPrice > chartConfig.minPrice
    /\ chartConfig.yAxisLabels[2].frac # 0

(* C4 *)

C5_WidthPositive == chartConfig.chartWidth > 0

(* C6 *)

\* C6: after a data-changed trigger with a non-empty series the x-axis labels
\* are the time fields of the current series' points, in series order.
C6_XAxisLabelsAreTimes ==
    (pc = "ready" /\ trigger.op = "ngOnChanges" /\ trigger.input = "series")
    => chartConfig.xAxisLabels = TimesOf(marketData.dataPoints)

(* C7 *)

\* C7: once ngOnDestroy has run, the element lists are empty and stay empty
\* whatever resize notification follows, and the observer no longer observes.
C7_NoLayoutAfterDestroy ==
    pc = "destroyed"
    => /\ candlesticks = <<>>
       /\ volumeBars = <<>>
       /\ resizeObserver # "observing"

C7_Witness ==
    /\ pc = "destroyed"
    /\ trigger.op = "containerResized"
    /\ trigger.width > 0
    /\ resizeObserver = "disconnected"
    /\ Len(marketData.dataPoints) > 0

(* C8 *)

PriceDerived(c) ==
    <<c.wickTop, c.wickHeight, c.bodyTop, c.bodyHeight, c.bodyClass, c.data>>

C9_WickAndBodyHeights ==
    \A i \in 1..Len(candlesticks) :
        /\ Le(Num(0), candlesticks[i].wickHeight)
        /\ Le(Num(2), candlesticks[i].bodyHeight)

(* C10 *)

\* C10: once the view is initialized and until teardown, there are as many
\* candlestick elements as volume-bar elements as points in the current
\* series, and element i is the one built from point i.
C10_GeometryIsCurrentSeries ==
    pc = "ready"
    => LET dp == marketData.dataPoints
       IN  /\ Len(candlesticks) = Len(dp)
           /\ Len(volumeBars) = Len(dp)
           /\ \A i \in 1..Len(dp) :
                 LET el == CreateCandlestick(marketData, chartConfig, dp[i], i - 1)
                 IN  /\ candlesticks[i] = el.candlestick
                     /\ volumeBars[i] = el.volumeBar

====
